---- MODULE Spec2Model ----
(***************************************************************************)
(* The atomizer dispatcher (interfaces/properties.go): the registration    *)
(* loop, the conductor adapters, the distribution loop, the atom adapters  *)
(* and the executor, as goroutines that meet on unbuffered channels.       *)
(*                                                                         *)
(* A goroutine's position is its pc, and a step takes it from one point   *)
(* where it can block to the next: a channel receive or send, the wait for *)
(* a.atomsMu, the atom's process method.  A send on an unbuffered channel  *)
(* and the matching receive are one step of both goroutines.  a.event(...) *)
(* on a nil events channel returns at once; with an events channel         *)
(* attached it is a blocking point of its own, left when the consumer      *)
(* receives or when the context is cancelled.                              *)
(***************************************************************************)
EXTENDS Integers, Sequences, FiniteSets, TLC

\* ------------------------------------------------------------------ bounds
MaxElectrons == 2   \* electrons the receive streams deliver, all in all
MaxAdapters == 2    \* atom adapters started (registrations of an atom)
MaxTime == 1        \* the clock's last reading
MaxRegistry == 2    \* entries of the pre-declared registry

Conductors == {"c1", "c2"}
Kinds == {"k1", "k2"}
Adapters == 1..MaxAdapters
Tags == Conductors \X (1..MaxElectrons)

NoTag == <<"none", 0>>
NoAdapter == 0
NoItem == [type |-> "none", id |-> "", valid |-> FALSE]

\* ------------------------------------------------------------------- state
VARIABLES
    cancelled,   \* a.ctx is done
    events,      \* a.events: "nil", or a channel that is "attached" to a
                 \* consumer that receives or "stalled" on one that does not
    atoms,       \* a.atoms: AtomID -> the adapter that reads the channel
    atomsMu,     \* a.atomsMu: "free" or "W" (held by receiveAtom)
    now,         \* the clock time.Now() reads
    rpc, ritem, nadapters,     \* receive()/register(): position, item; adapters
    cpc, cidx, sending,        \* conduct(c): position, electrons pulled,
                               \* the instances it is sending on a.electrons
    dpc, dinst, dchan,         \* distribute(): position, inst, achan
    apc, akind, ainst, aatom, aprops,  \* _split(a)/exec: position, atom
                               \* prototype's kind, inst, new atom, properties
    heap, nalloc,              \* atom values: address -> field; allocations
    fate,        \* how far each delivered electron has come
    ncomp,       \* conductor.Complete calls made for each electron
    last,        \* the conductor.Complete call of the step just taken, if any
    intake,      \* instances sent on a.electrons, in order
    handed,      \* instances received by atom adapters, in order, and
                 \* whether the adapter was then the table's for the kind
    execs,       \* per electron: its atom's address, the field process saw
    registry,    \* init(): the pre-declared registry and the entries to go
    wire         \* an Electron on its way through MarshalJSON/UnmarshalJSON

vars == <<cancelled, events, atoms, atomsMu, now, rpc, ritem, nadapters,
          cpc, cidx, sending, dpc, dinst, dchan, apc, akind, ainst, aatom,
          aprops, heap, nalloc, fate, ncomp, last, intake, handed, execs,
          registry, wire>>

\* What no goroutine of the running dispatcher writes.
envVars == <<events, registry, wire>>
regVars == <<rpc, ritem, nadapters>>
condVars == <<cpc, cidx, sending>>
distVars == <<dpc, dinst, dchan>>
splitVars == <<apc, akind, ainst, aatom, aprops>>
heapVars == <<heap, nalloc>>
logVars == <<fate, ncomp, intake, handed, execs>>

\* ----------------------------------------------------------------- helpers
Min(a, b) == IF a < b THEN a ELSE b

EmptyID == <<>>
NoElectron == [SenderID |-> "", ID |-> EmptyID, AtomID |-> "", Payload |-> "nil"]
NoInst == [tag |-> NoTag, electron |-> NoElectron, conductor |-> ""]
NoProps == [ElectronID |-> EmptyID, AtomID |-> "", Start |-> 0, End |-> 0,
            Error |-> "nil", Result |-> "nil"]
NoExec == [atom |-> 0, seen |-> "none", panicked |-> FALSE]
NoCall == [conductor |-> "", tag |-> NoTag, electron |-> NoElectron,
           props |-> NoProps]
NoRegistry == [all |-> <<>>, left |-> <<>>]
NoWire == [stage |-> "none"]

\* The electrons position i of conductor c's stream can deliver: each of the
\* three identifying fields empty or not, the AtomID any kind, with or
\* without a payload.
ElectronsAt(c, i) ==
    [SenderID : {"", c}, ID : {EmptyID, <<c, i>>}, AtomID : {""} \cup Kinds,
     Payload : {"nil", "json"}]

\* A validation that does not look at the AtomID.
ValidateSenderAndID(e) == e.SenderID # "" /\ e.ID # EmptyID

\* Electron.Validate, by the table of TestElectron_Validate: for each
\* combination of SenderID, ID and AtomID being set, in this order, the
\* validity the test expects.
ValidateCases ==
    {<<TRUE, TRUE, TRUE>> :> TRUE,
     <<FALSE, FALSE, FALSE>> :> FALSE,
     <<TRUE, FALSE, FALSE>> :> FALSE,
     <<FALSE, FALSE, TRUE>> :> FALSE,
     <<FALSE, TRUE, FALSE>> :> FALSE,
     <<TRUE, FALSE, TRUE>> :> FALSE,
     <<TRUE, TRUE, FALSE>> :> FALSE,
     <<FALSE, TRUE, TRUE>> :> FALSE}

Validate(e) ==
    \E case \in ValidateCases :
        /\ DOMAIN case = {<<e.SenderID # "", e.ID # EmptyID, e.AtomID # "">>}
        /\ case[<<e.SenderID # "", e.ID # EmptyID, e.AtomID # "">>]

\* The values a registration channel can carry.
Items ==
    [type : {"Conductor"}, id : Conductors, valid : BOOLEAN]
    \cup [type : {"Atom"}, id : Kinds, valid : BOOLEAN]
    \cup [type : {"Other"}, id : {"x"}, valid : BOOLEAN]

\* time.Now(): the clock has not moved since the last reading, or it has.
Readings(t) == {t, Min(t + 1, MaxTime)}

\* Atom values live at addresses; the prototype of each kind is registered
\* at a fixed address, reflect.New takes the next free one.
ProtoAddr(k) == IF k = "k1" THEN 1 ELSE 2
Addrs == 1..(Cardinality(Kinds) + MaxElectrons)
FreshAddr == Cardinality(Kinds) + nalloc + 1

\* a.event(e) before continuing at `next`: with no events channel the call
\* returns at once; otherwise the goroutine waits at `site`.
event(site, next) == IF events = "nil" THEN next ELSE site

\* One conductor.Complete(ctx, props) call on conductor c, made for the
\* electron e that stream position tag delivered.
Complete(c, tag, e, props) ==
    /\ ncomp' = [ncomp EXCEPT ![tag] = @ + 1]
    /\ last' = [conductor |-> c, tag |-> tag, electron |-> e, props |-> props]

\* ---------------------------------------------------------------- initial
\* The dispatcher's state with init() at position pc of its work on the
\* registry reg, and the codec holding w.
InitState(ev, t0, pc, reg, w) ==
    /\ cancelled = FALSE
    /\ events = ev
    /\ atoms = [k \in Kinds |-> NoAdapter]
    /\ atomsMu = "free"
    /\ now = t0
    /\ rpc = pc
    /\ ritem = NoItem
    /\ nadapters = 0
    /\ cpc = [c \in Conductors |-> "none"]
    /\ cidx = [c \in Conductors |-> 0]
    /\ sending = [c \in Conductors |-> {}]
    /\ dpc = "recv"
    /\ dinst = NoInst
    /\ dchan = NoAdapter
    /\ apc = [a \in Adapters |-> "none"]
    /\ akind = [a \in Adapters |-> ""]
    /\ ainst = [a \in Adapters |-> NoInst]
    /\ aatom = [a \in Adapters |-> 0]
    /\ aprops = [a \in Adapters |-> NoProps]
    /\ heap = [x \in Addrs |-> IF x <= Cardinality(Kinds) THEN "proto" ELSE "free"]
    /\ nalloc = 0
    /\ fate = [t \in Tags |-> "none"]
    /\ ncomp = [t \in Tags |-> 0]
    /\ last = NoCall
    /\ intake = <<>>
    /\ handed = <<>>
    /\ execs = [t \in Tags |-> NoExec]
    /\ registry = reg
    /\ wire = w

\* After init() of an empty registry and Exec: the loops are running.
InitWith(ev, t0) == InitState(ev, t0, "idle", NoRegistry, NoWire)

\* The dispatcher after init() and Exec, with an empty registry: nothing in
\* the source attaches an events channel.
Init == InitWith("nil", 0)

\* ------------------------------------------------------------ registration
\* init() is still ranging over the registry.
initializing == registry.left # <<>>

\* Where register returns to: into init()'s loop over the registry, or into
\* receive(), which emits "registered <id>" and selects again.
afterRegister == IF initializing THEN "init" ELSE event("evRegistered", "idle")

\* receiveConductor: a valid conductor gets a conduct goroutine.
receiveConductor(c) ==
    /\ cpc' = [cpc EXCEPT ![c] = "recv"]
    /\ rpc' = event("evReceived", afterRegister)
    /\ UNCHANGED <<atoms, atomsMu, apc, akind, nadapters>>

\* A receiveAtom that ends the adapter whose channel it replaces.
receiveAtomStopsPrevious(k) ==
    /\ nadapters' = nadapters + 1
    /\ atoms' = [atoms EXCEPT ![k] = nadapters']
    /\ apc' = [a \in Adapters |->
                 IF a = nadapters' THEN "recv"
                 ELSE IF a = atoms[k] THEN "done" ELSE apc[a]]
    /\ akind' = [akind EXCEPT ![nadapters'] = k]
    /\ atomsMu' = IF events = "nil" THEN "free" ELSE "W"
    /\ rpc' = IF events = "nil" THEN afterRegister ELSE "evRegChan"
    /\ UNCHANGED cpc

\* A receiveAtom that starts the adapter but leaves a channel that is
\* already in the table where it is.
receiveAtomKeepsFirst(k) ==
    /\ nadapters' = nadapters + 1
    /\ atoms' = IF atoms[k] = NoAdapter THEN [atoms EXCEPT ![k] = nadapters']
                                        ELSE atoms
    /\ apc' = [apc EXCEPT ![nadapters'] = "recv"]
    /\ akind' = [akind EXCEPT ![nadapters'] = k]
    /\ atomsMu' = IF events = "nil" THEN "free" ELSE "W"
    /\ rpc' = IF events = "nil" THEN afterRegister ELSE "evRegChan"
    /\ UNCHANGED cpc

\* receiveAtom/split: under the write lock the table gets the channel of a
\* new adapter; the lock is still held while "registered electron channel"
\* is emitted.
receiveAtom(k) ==
    /\ nadapters' = nadapters + 1
    /\ atoms' = [atoms EXCEPT ![k] = nadapters']
    /\ apc' = [apc EXCEPT ![nadapters'] = "recv"]
    /\ akind' = [akind EXCEPT ![nadapters'] = k]
    /\ atomsMu' = IF events = "nil" THEN "free" ELSE "W"
    /\ rpc' = IF events = "nil" THEN afterRegister ELSE "evRegChan"
    /\ UNCHANGED cpc

\* A type switch whose branches start the adapter whatever the validator
\* said.
registerUnchecked(item) ==
    /\ CASE item.type = "Conductor" ->
                receiveConductor(item.id)
         [] item.type = "Atom" ->
                receiveAtom(item.id)
         [] OTHER ->
                /\ rpc' = event("evUnknown", afterRegister)
                /\ UNCHANGED <<atoms, atomsMu, apc, akind, cpc, nadapters>>
    /\ ritem' = IF rpc' = "idle" THEN NoItem ELSE item

\* register: the type switch.  An invalid item was reported first and still
\* reaches the switch; receiveConductor and receiveAtom validate again and
\* return an error.
register(item) ==
    /\ CASE item.type = "Conductor" /\ item.valid ->
                receiveConductor(item.id)
         [] item.type = "Atom" /\ item.valid ->
                receiveAtom(item.id)
         [] item.type = "Other" ->
                /\ rpc' = event("evUnknown", afterRegister)
                /\ UNCHANGED <<atoms, atomsMu, apc, akind, cpc, nadapters>>
         [] OTHER ->
                /\ rpc' = afterRegister
                /\ UNCHANGED <<atoms, atomsMu, apc, akind, cpc, nadapters>>
    /\ ritem' = IF rpc' = "idle" THEN NoItem ELSE item

\* receive(): an item arrives on a.registrations (the select may take it
\* even when ctx is done, if both cases are ready) and goes to register,
\* which first reports an invalid one.
RegisterTake(item) ==
    /\ rpc = "idle"
    /\ IF ~item.valid /\ events # "nil"
       THEN /\ rpc' = "evInvalid"
            /\ ritem' = item
            /\ UNCHANGED <<atoms, atomsMu, apc, akind, cpc, nadapters>>
       ELSE register(item)
    /\ last' = NoCall
    /\ UNCHANGED <<cancelled, envVars, now, cidx, sending, distVars, ainst, aatom,
                   aprops, heapVars, logVars>>

\* The position after each event site of the registration goroutine.
regNext(site) ==
    CASE site = "evRegChan" -> event("evReceived", afterRegister)
      [] site = "evReceived" -> afterRegister
      [] site = "evUnknown" -> afterRegister
      [] site = "evRegistered" -> "idle"
      [] OTHER -> site

RegSites == {"evInvalid", "evRegChan", "evReceived", "evUnknown", "evRegistered"}

\* receive(): ctx is done.
ReceiveDone ==
    /\ rpc = "idle"
    /\ cancelled
    /\ rpc' = "done"
    /\ last' = NoCall
    /\ UNCHANGED <<cancelled, envVars, atoms, atomsMu, now, ritem, nadapters,
                   condVars, distVars, splitVars, heapVars, logVars>>

\* --------------------------------------------------------------- a.event
\* An emission that waits for the consumer alone.
eventReturnsOnSend(how) == how = "sent" /\ events = "attached"

\* The select of event: the send on a.events went through (the consumer
\* received), or ctx was done.
eventReturns(how) ==
    \/ how = "sent" /\ events = "attached"
    \/ how = "ctx" /\ cancelled

Hows == {"sent", "ctx"}

\* a.event at a site of register/receive returns; receiveAtom's deferred
\* Unlock runs when its event call returns.
RegisterEmitted(how) ==
    /\ rpc \in RegSites
    /\ eventReturns(how)
    /\ IF rpc = "evInvalid"
       THEN register(ritem)
       ELSE /\ rpc' = regNext(rpc)
            /\ atomsMu' = IF rpc = "evRegChan" THEN "free" ELSE atomsMu
            /\ ritem' = IF rpc' = "idle" THEN NoItem ELSE ritem
            /\ UNCHANGED <<atoms, apc, akind, cpc, nadapters>>
    /\ last' = NoCall
    /\ UNCHANGED <<cancelled, envVars, now, cidx, sending, distVars, ainst, aatom,
                   aprops, heapVars, logVars>>

\* ------------------------------------------------------- conductor adapter
\* A validator that asks for an AtomID only.
ValidAtomID(e) == e.AtomID # ""

\* validator.Valid(e) on an electron calls its Validate method.
Valid(e) == Validate(e)

\* An instance that always names the first conductor.
instanceOnFirst(c, tag, e) == [tag |-> tag, electron |-> e, conductor |-> "c1"]

\* instance{electron: e, conductor: conductor}
instance(c, tag, e) == [tag |-> tag, electron |-> e, conductor |-> c]

\* The failure report of an invalid electron: Start and End are two
\* readings of the clock.
invalidProps(e, s, t) ==
    [ElectronID |-> e.ID, AtomID |-> e.AtomID, Start |-> s, End |-> t,
     Error |-> "invalid electron", Result |-> "nil"]

\* A conduct that hands the send to another goroutine and receives on.
afterReceivedAsync == "recv"

\* Where conduct waits once a valid electron was announced: in the select
\* that sends the instance on a.electrons.
afterReceived == "send"

\* The electrons pulled from the receive streams so far.
Pulled == cidx["c1"] + cidx["c2"]

\* conduct: an electron arrives on the receiver.  An invalid one is reported
\* to the conductor and the loop continues; a valid one is announced and
\* then offered on a.electrons.
ConductReceive(c, e) ==
    LET tag == <<c, cidx[c] + 1>> IN
    /\ cpc[c] = "recv"
    /\ Pulled < MaxElectrons
    /\ cidx' = [cidx EXCEPT ![c] = @ + 1]
    /\ IF ~Valid(e)
       THEN \E s \in Readings(now) : \E t \in Readings(s) :
              /\ Complete(c, tag, e, invalidProps(e, s, t))
              /\ now' = t
              /\ fate' = [fate EXCEPT ![tag] = "invalid"]
              /\ sending' = sending
              /\ cpc' = [cpc EXCEPT ![c] = event("evInvalid", "recv")]
       ELSE /\ sending' = [sending EXCEPT ![c] = @ \cup {instance(c, tag, e)}]
            /\ fate' = [fate EXCEPT ![tag] = "received"]
            /\ cpc' = [cpc EXCEPT ![c] = event("evReceived", afterReceived)]
            /\ last' = NoCall
            /\ UNCHANGED <<ncomp, now>>
    /\ UNCHANGED <<cancelled, envVars, atoms, atomsMu, regVars, distVars,
                   splitVars, heapVars, intake, handed, execs>>

\* A conduct whose send on a.electrons has no ctx.Done case.
conductSelectsRecvOnly == {"recv"}

\* The selects of conduct that have a ctx.Done case: the receive and the
\* send on a.electrons.
conductSelects == {"recv", "send"}

\* conduct: ctx is done at one of its selects.
ConductDone(c) ==
    /\ cpc[c] \in conductSelects
    /\ cancelled
    /\ cpc' = [cpc EXCEPT ![c] = "done"]
    /\ sending' = [sending EXCEPT ![c] = {}]
    /\ last' = NoCall
    /\ UNCHANGED <<cancelled, envVars, atoms, atomsMu, now, regVars, cidx,
                   distVars, splitVars, heapVars, logVars>>

condNext(site) ==
    CASE site = "evInvalid" -> "recv"
      [] site = "evReceived" -> afterReceived
      [] site = "evDistributed" -> "recv"
      [] OTHER -> site

CondSites == {"evInvalid", "evReceived", "evDistributed"}

ConductEmitted(c, how) ==
    /\ cpc[c] \in CondSites
    /\ eventReturns(how)
    /\ cpc' = [cpc EXCEPT ![c] = condNext(@)]
    /\ last' = NoCall
    /\ UNCHANGED <<cancelled, envVars, atoms, atomsMu, now, regVars, cidx, sending,
                   distVars, splitVars, heapVars, logVars>>

\* ------------------------------------------------------- distribution loop
\* achan, ok := a.atoms[inst.electron.AtomID]
lookup(k) == atoms[k]

\* A distribute that returns when the lookup finds no channel.
routeOrReturn(inst) ==
    LET achan == lookup(inst.electron.AtomID) IN
    /\ dchan' = achan
    /\ dinst' = IF achan # NoAdapter THEN inst ELSE NoInst
    /\ dpc' = IF achan # NoAdapter THEN event("evPushing", "send") ELSE "done"
    /\ fate' = [fate EXCEPT ![inst.tag] = IF achan # NoAdapter THEN "forwarded"
                                                                 ELSE "dropped"]

\* distribute, from the lookup under the read lock: without a channel the
\* instance is reported "not registered" and dropped, with one it is
\* announced and then offered on achan.
route(inst) ==
    LET achan == lookup(inst.electron.AtomID) IN
    IF achan # NoAdapter
    THEN /\ dchan' = achan
         /\ dinst' = inst
         /\ dpc' = event("evPushing", "send")
         /\ fate' = [fate EXCEPT ![inst.tag] = "forwarded"]
    ELSE /\ dchan' = NoAdapter
         /\ dinst' = NoInst
         /\ dpc' = event("evNotReg", "recv")
         /\ fate' = [fate EXCEPT ![inst.tag] = "dropped"]

\* a.electrons is unbuffered: conduct's send and distribute's receive are
\* one step; distribute goes on to the lookup unless receiveAtom holds the
\* lock.
Forward(c) ==
    \E inst \in sending[c] :
    /\ cpc[c] = afterReceived
    /\ dpc = "recv"
    /\ intake' = Append(intake, inst.tag)
    /\ sending' = [sending EXCEPT ![c] = @ \ {inst}]
    /\ cpc' = [cpc EXCEPT ![c] = event("evDistributed", "recv")]
    /\ IF atomsMu = "free"
       THEN route(inst)
       ELSE /\ dpc' = "lookup"
            /\ dinst' = inst
            /\ UNCHANGED <<dchan, fate>>
    /\ last' = NoCall
    /\ UNCHANGED <<cancelled, envVars, atoms, atomsMu, now, regVars, cidx,
                   splitVars, heapVars, ncomp, handed, execs>>

\* distribute: a.atomsMu.RLock() succeeds once receiveAtom has unlocked.
Lookup ==
    /\ dpc = "lookup"
    /\ atomsMu = "free"
    /\ route(dinst)
    /\ last' = NoCall
    /\ UNCHANGED <<cancelled, envVars, atoms, atomsMu, now, regVars, condVars,
                   splitVars, heapVars, ncomp, intake, handed, execs>>

\* The selects of distribute that have a ctx.Done case: the receive on
\* a.electrons and the send on achan.
distributeSelects == {"recv", "send"}

\* distribute: ctx is done at one of its selects.
DistributeDone ==
    /\ dpc \in distributeSelects
    /\ cancelled
    /\ dpc' = "done"
    /\ dinst' = NoInst
    /\ dchan' = NoAdapter
    /\ last' = NoCall
    /\ UNCHANGED <<cancelled, envVars, atoms, atomsMu, now, regVars, condVars,
                   splitVars, heapVars, logVars>>

distNext(site) ==
    CASE site = "evNotReg" -> "recv"
      [] site = "evPushing" -> "send"
      [] site = "evPushed" -> "recv"
      [] OTHER -> site

DistSites == {"evNotReg", "evPushing", "evPushed"}

DistributeEmitted(how) ==
    /\ dpc \in DistSites
    /\ eventReturns(how)
    /\ dpc' = distNext(dpc)
    /\ last' = NoCall
    /\ UNCHANGED <<cancelled, envVars, atoms, atomsMu, now, regVars, condVars,
                   dinst, dchan, splitVars, heapVars, logVars>>

\* ------------------------------------------------ atom adapter and executor
\* An adapter that executes on the registered prototype.
newAtomIsPrototype(a) == ProtoAddr(akind[a])

\* reflect.New(reflect.TypeOf(atom).Elem()): a new zero value of the
\* prototype's type, at an address of its own.
newAtom(a) == FreshAddr

\* inst.bond(atom): attach the atom, or fail when the instance's parts do
\* not validate.
bond(a, ok) == ok

Outcomes == {"ok", "process error", "execute error"}

\* The process method does not return: it panics.
Panics == {"panic"}

\* inst.execute(ctx): run the atom's process method in the execution scope,
\* capture result or error, set End.  A success is reported to the conductor
\* here; a failure is returned to exec, and so is a panic of the process
\* method, trapped and recorded as the error.
execute(a, outcome, t) ==
    [err |-> outcome # "ok",
     reported |-> outcome = "ok",
     props |-> [aprops[a] EXCEPT
                  !.End = t,
                  !.Result = IF outcome = "ok" THEN "result" ELSE "nil",
                  !.Error = IF outcome \in {"process error", "panic"}
                            THEN outcome ELSE "nil"]]

\* exec's handling of execute's error: the recorded error is wrapped, or the
\* returned one recorded.
execError(props) ==
    [props EXCEPT !.Error = IF props.Error # "nil" THEN "execution error" ELSE "err"]

\* A _split that returns once exec has returned.
afterExecLeaves == "done"

\* Where _split is once exec has returned: in its for loop, at the select.
afterExec == "recv"

\* The adapter goes to pcNew with instance inst; exec has returned to
\* _split's loop when it is back at "recv".
Returns(a, inst, pcNew) ==
    /\ apc' = [apc EXCEPT ![a] = pcNew]
    /\ fate' = [fate EXCEPT ![inst.tag] = IF pcNew = "recv" THEN "returned"
                                                            ELSE "handed"]
    /\ ainst' = [ainst EXCEPT ![a] = IF pcNew = "recv" THEN NoInst ELSE inst]
    /\ aatom' = [aatom EXCEPT ![a] = IF pcNew = "recv" THEN 0 ELSE @]
    /\ aprops' = [aprops EXCEPT ![a] = IF pcNew = "recv" THEN NoProps ELSE @]

\* _split after "new instance of electron": a new atom value for the
\* instance, then exec: bond, and on success the start of execute
\* (Properties with Start, ElectronID, AtomID) up to the process call.
exec(a, inst, ok) ==
    LET addr == newAtom(a) IN
    /\ heap' = [heap EXCEPT ![addr] = IF @ = "free" THEN "zero" ELSE @]
    /\ nalloc' = nalloc + 1
    /\ execs' = [execs EXCEPT ![inst.tag] =
                    [atom |-> addr, seen |-> heap'[addr], panicked |-> FALSE]]
    /\ IF bond(a, ok)
       THEN \E s \in Readings(now) :
              /\ now' = s
              /\ apc' = [apc EXCEPT ![a] = "process"]
              /\ ainst' = [ainst EXCEPT ![a] = inst]
              /\ aatom' = [aatom EXCEPT ![a] = addr]
              /\ aprops' = [aprops EXCEPT ![a] =
                              [NoProps EXCEPT !.ElectronID = inst.electron.ID,
                                              !.AtomID = akind[a],
                                              !.Start = s, !.End = s]]
              /\ fate' = [fate EXCEPT ![inst.tag] = "handed"]
       ELSE /\ Returns(a, inst, event("evBondErr", afterExec))
            /\ UNCHANGED now

\* The atom channel is unbuffered: distribute's send on achan and the
\* receive of the adapter that reads achan are one step.
Route(a, ok) ==
    /\ dpc = "send"
    /\ dchan = a
    /\ apc[a] = "recv"
    /\ handed' = Append(handed, [tag |-> dinst.tag, adapter |-> a,
                                 current |-> lookup(dinst.electron.AtomID) = a])
    /\ dinst' = NoInst
    /\ dchan' = NoAdapter
    /\ dpc' = event("evPushed", "recv")
    /\ IF events = "nil"
       THEN exec(a, dinst, ok)
       ELSE /\ Returns(a, dinst, "evNew")
            /\ UNCHANGED <<now, heapVars, execs>>
    /\ last' = NoCall
    /\ UNCHANGED <<cancelled, envVars, atoms, atomsMu, regVars, condVars,
                   akind, ncomp, intake>>

\* The atom's process method returns (it may have written the atom's
\* field); execute finishes and exec reports a failure to the instance's
\* conductor, emitting the error Complete returned, if any.
Process(a, outcome, cerr) ==
    LET inst == ainst[a] IN
    /\ apc[a] = "process"
    /\ heap' = [heap EXCEPT ![aatom[a]] = "dirty"]
    /\ \E t \in Readings(now) :
         LET r == execute(a, outcome, t) IN
         /\ now' = t
         /\ IF r.err
            THEN /\ IF inst.conductor # ""
                    THEN Complete(inst.conductor, inst.tag, inst.electron,
                                  execError(r.props))
                    ELSE last' = NoCall /\ UNCHANGED ncomp
                 /\ Returns(a, inst,
                            IF cerr
                            THEN event("evCompleteErr", event("evExecErr", afterExec))
                            ELSE event("evExecErr", afterExec))
            ELSE /\ IF r.reported
                    THEN Complete(inst.conductor, inst.tag, inst.electron, r.props)
                    ELSE last' = NoCall /\ UNCHANGED ncomp
                 /\ Returns(a, inst, afterExec)
    /\ execs' = [execs EXCEPT ![inst.tag].panicked = outcome \in Panics]
    /\ UNCHANGED <<cancelled, envVars, atoms, atomsMu, regVars, condVars,
                   distVars, akind, nalloc, intake, handed>>

\* _split: ctx is done at the receive select.
SplitDone(a) ==
    /\ apc[a] = "recv"
    /\ cancelled
    /\ apc' = [apc EXCEPT ![a] = "done"]
    /\ last' = NoCall
    /\ UNCHANGED <<cancelled, envVars, atoms, atomsMu, now, regVars, condVars,
                   distVars, akind, ainst, aatom, aprops, heapVars, logVars>>

splitNext(site) ==
    CASE site = "evBondErr" -> afterExec
      [] site = "evCompleteErr" -> "evExecErr"
      [] site = "evExecErr" -> afterExec
      [] OTHER -> site

SplitSites == {"evNew", "evBondErr", "evCompleteErr", "evExecErr"}

SplitEmitted(a, how, ok) ==
    /\ apc[a] \in SplitSites
    /\ eventReturns(how)
    /\ IF apc[a] = "evNew"
       THEN exec(a, ainst[a], ok)
       ELSE /\ Returns(a, ainst[a], splitNext(apc[a]))
            /\ UNCHANGED <<now, heapVars, execs>>
    /\ last' = NoCall
    /\ UNCHANGED <<cancelled, envVars, atoms, atomsMu, regVars, condVars,
                   distVars, akind, ncomp, intake, handed>>

\* ------------------------------------------------------------ cancellation
\* Stop: a.cancel().
Stop ==
    /\ ~cancelled
    /\ cancelled' = TRUE
    /\ last' = NoCall
    /\ UNCHANGED <<envVars, atoms, atomsMu, now, regVars, condVars, distVars,
                   splitVars, heapVars, logVars>>

\* ------------------------------------------------------------ specification
\* A conductor is offered for registration once, an atom while the bound
\* on adapters allows.
Offered(items) ==
    {i \in items :
        /\ ~(i.type = "Conductor" /\ i.valid /\ cpc[i.id] # "none")
        /\ ~(i.type = "Atom" /\ i.valid /\ nadapters >= MaxAdapters)}

\* The dispatcher while its context is not cancelled.  (A goroutine that
\* has returned on ctx.Done takes no further step, which the others cannot
\* tell from its not being scheduled.)
Next ==
    \/ \E item \in Offered(Items) : RegisterTake(item)
    \/ \E c \in Conductors : \E e \in ElectronsAt(c, cidx[c] + 1) : ConductReceive(c, e)
    \/ \E c \in Conductors : Forward(c)
    \/ \E a \in Adapters : \E ok \in BOOLEAN : Route(a, ok)
    \/ \E a \in Adapters : \E o \in Outcomes : \E cerr \in BOOLEAN : Process(a, o, cerr)

Spec == Init /\ [][Next]_vars

\* The scheduler runs every goroutine that can take a step, and calls into
\* atoms and conductors return; the arrival of registrations and electrons
\* is up to the environment.
FairSpec ==
    /\ Spec
    /\ \A c \in Conductors : WF_vars(Forward(c))
    /\ \A a \in Adapters : WF_vars(\E ok \in BOOLEAN : Route(a, ok))
    /\ \A a \in Adapters :
          WF_vars(\E o \in Outcomes : \E cerr \in BOOLEAN : Process(a, o, cerr))

\* Cancellation, with or without an events channel attached (by the caller,
\* before Exec), for one conductor, one atom kind registered once, and
\* electrons that are well-formed or empty, late enough that the clock's
\* readings no longer differ.
StopItems ==
    {[type |-> "Conductor", id |-> "c1", valid |-> TRUE],
     [type |-> "Atom", id |-> "k1", valid |-> TRUE],
     [type |-> "Other", id |-> "x", valid |-> FALSE]}

StopOffered ==
    {i \in Offered(StopItems) : i.type = "Atom" => atoms[i.id] = NoAdapter}

StopElectronsAt(c, i) ==
    {e \in ElectronsAt(c, i) :
        /\ e.Payload = "nil"
        /\ e = NoElectron \/ (Valid(e) /\ e.AtomID = "k1")}

InitStop == \E ev \in {"nil", "attached", "stalled"} : InitWith(ev, MaxTime)

NextStop ==
    \/ \E item \in StopOffered : RegisterTake(item)
    \/ \E how \in Hows : RegisterEmitted(how)
    \/ ReceiveDone
    \/ \E c \in Conductors : \E e \in StopElectronsAt(c, cidx[c] + 1) : ConductReceive(c, e)
    \/ \E c \in Conductors : \E how \in Hows : ConductEmitted(c, how)
    \/ \E c \in Conductors : ConductDone(c)
    \/ \E c \in Conductors : Forward(c)
    \/ Lookup
    \/ \E how \in Hows : DistributeEmitted(how)
    \/ DistributeDone
    \/ \E a \in Adapters : \E ok \in BOOLEAN : Route(a, ok)
    \/ \E a \in Adapters : \E o \in Outcomes : \E cerr \in BOOLEAN : Process(a, o, cerr)
    \/ \E a \in Adapters : \E how \in Hows : \E ok \in BOOLEAN : SplitEmitted(a, how, ok)
    \/ \E a \in Adapters : SplitDone(a)
    \/ Stop

SpecStop == InitStop /\ [][NextStop]_vars

\* The same scheduling.  A select picks among its ready cases at random, so
\* a loop that finds ctx.Done ready again and again takes it in the end;
\* whether the consumer of events ever receives is up to the environment.
FairSpecStop ==
    /\ SpecStop
    /\ WF_vars(RegisterEmitted("ctx"))
    /\ SF_vars(ReceiveDone)
    /\ \A c \in Conductors : WF_vars(ConductEmitted(c, "ctx"))
    /\ \A c \in Conductors : SF_vars(ConductDone(c))
    /\ WF_vars(Lookup)
    /\ WF_vars(DistributeEmitted("ctx"))
    /\ SF_vars(DistributeDone)
    /\ \A a \in Adapters :
          WF_vars(\E o \in Outcomes : \E cerr \in BOOLEAN : Process(a, o, cerr))
    /\ \A a \in Adapters : WF_vars(\E ok \in BOOLEAN : SplitEmitted(a, "ctx", ok))
    /\ \A a \in Adapters : SF_vars(SplitDone(a))

\* ------------------------------------------------- a consumer that stops
\* The consumer of a.events stops receiving.
ConsumerStalls ==
    /\ events = "attached"
    /\ events' = "stalled"
    /\ last' = NoCall
    /\ UNCHANGED <<cancelled, registry, wire, atoms, atomsMu, now, regVars,
                   condVars, distVars, splitVars, heapVars, logVars>>

\* The dispatcher with an events channel attached and no cancellation, for
\* the registrations and electrons of the cancellation scenario.
InitEvents == InitWith("attached", MaxTime)

NextEvents ==
    \/ \E item \in StopOffered : RegisterTake(item)
    \/ RegisterEmitted("sent")
    \/ \E c \in Conductors : \E e \in StopElectronsAt(c, cidx[c] + 1) : ConductReceive(c, e)
    \/ \E c \in Conductors : ConductEmitted(c, "sent")
    \/ \E c \in Conductors : Forward(c)
    \/ Lookup
    \/ DistributeEmitted("sent")
    \/ \E a \in Adapters : \E ok \in BOOLEAN : Route(a, ok)
    \/ \E a \in Adapters : \E o \in Outcomes : \E cerr \in BOOLEAN : Process(a, o, cerr)
    \/ \E a \in Adapters : \E ok \in BOOLEAN : SplitEmitted(a, "sent", ok)
    \/ ConsumerStalls

SpecEvents == InitEvents /\ [][NextEvents]_vars

\* Every goroutine that can take a step is scheduled, process calls return,
\* and the consumer receives what is sent for as long as it has not stopped.
FairSpecEvents ==
    /\ SpecEvents
    /\ WF_vars(RegisterEmitted("sent"))
    /\ \A c \in Conductors : WF_vars(ConductEmitted(c, "sent"))
    /\ \A c \in Conductors : WF_vars(Forward(c))
    /\ WF_vars(Lookup)
    /\ WF_vars(DistributeEmitted("sent"))
    /\ \A a \in Adapters : WF_vars(\E ok \in BOOLEAN : Route(a, ok))
    /\ \A a \in Adapters :
          WF_vars(\E o \in Outcomes : \E cerr \in BOOLEAN : Process(a, o, cerr))
    /\ \A a \in Adapters : WF_vars(\E ok \in BOOLEAN : SplitEmitted(a, "sent", ok))

\* ------------------------------------------------ the registration loop
\* receive() and register alone, with an events channel whose consumer
\* receives: every kind of item, valid and invalid, arrives.
InitReg == InitWith("attached", 0)

NextReg ==
    \/ \E item \in Offered(Items) : RegisterTake(item)
    \/ RegisterEmitted("sent")

SpecReg == InitReg /\ [][NextReg]_vars

FairSpecReg == SpecReg /\ WF_vars(RegisterEmitted("sent"))

\* ---------------------------------------------------------- initialisation
\* What Registrations() can return: up to MaxRegistry entries, no two for
\* the same type and id, and no more atoms than the bound on adapters.
Registries ==
    {r \in UNION {[1..n -> Items] : n \in 0..MaxRegistry} :
        /\ \A i, j \in DOMAIN r :
              i # j => r[i].type # r[j].type \/ r[i].id # r[j].id
        /\ Cardinality({i \in DOMAIN r : r[i].type = "Atom"}) <= MaxAdapters}

\* An init() that hands the registry to a goroutine and returns.
initDoneAtOnce == TRUE

\* init(): the range over Registrations() is exhausted.
initDone == registry.left = <<>>

\* init(): a.register(r) for the next entry of the registry.
InitRegister ==
    /\ rpc = "init"
    /\ ~initDone
    /\ register(Head(registry.left))
    /\ registry' = [registry EXCEPT !.left = Tail(@)]
    /\ last' = NoCall
    /\ UNCHANGED <<cancelled, events, wire, now, cidx, sending, distVars, ainst,
                   aatom, aprops, heapVars, logVars>>

\* init() returns, and Exec starts receive() and distribute().
InitReturn ==
    /\ rpc = "init"
    /\ initDone
    /\ rpc' = "idle"
    /\ last' = NoCall
    /\ UNCHANGED <<cancelled, envVars, atoms, atomsMu, now, ritem, nadapters,
                   condVars, distVars, splitVars, heapVars, logVars>>

InitBoot ==
    \E r \in Registries :
        InitState("nil", 0, "init", [all |-> r, left |-> r], NoWire)

NextBoot == InitRegister \/ InitReturn

SpecBoot == InitBoot /\ [][NextBoot]_vars

\* ------------------------------------------------------- panicking atoms
\* One conductor and one atom kind, electrons that are valid, and a process
\* method that returns or panics.
PanicItems ==
    {[type |-> "Conductor", id |-> "c1", valid |-> TRUE],
     [type |-> "Atom", id |-> "k1", valid |-> TRUE]}

PanicElectronsAt(c, i) ==
    {e \in ElectronsAt(c, i) : Valid(e) /\ e.AtomID = "k1" /\ e.Payload = "json"}

NextPanic ==
    \/ \E item \in Offered(PanicItems) : RegisterTake(item)
    \/ \E c \in Conductors : \E e \in PanicElectronsAt(c, cidx[c] + 1) : ConductReceive(c, e)
    \/ \E c \in Conductors : Forward(c)
    \/ \E a \in Adapters : \E ok \in BOOLEAN : Route(a, ok)
    \/ \E a \in Adapters : \E o \in Outcomes \cup Panics : \E cerr \in BOOLEAN :
          Process(a, o, cerr)

SpecPanic == Init /\ [][NextPanic]_vars

\* ------------------------------------------------------- electron wire format
\* Byte strings, written as text: the JSON object and its base64 text from
\* the tests, a JSON string whose content is that base64 text, a JSON string
\* whose content is not base64, and bytes that are not JSON.
PayObject == "{\"test\":\"test\"}"
Pay64 == "eyJ0ZXN0IjoidGVzdCJ9"
PayString64 == "\"eyJ0ZXN0IjoidGVzdCJ9\""
PayString == "\"hi\""
PayBinary == "hi"
Payloads == {"nil", PayObject, PayString64, PayString, PayBinary}

\* base64.StdEncoding of the byte strings above that are ever encoded.
Base64 == (PayObject :> Pay64) @@ (PayBinary :> "aGk=")

IsJSON(b) == b \in {PayObject, PayString64, PayString}
IsJSONString(v) == v \in {PayString64, PayString, "\"aGk=\""}
Quote(t) == IF t = Pay64 THEN PayString64
            ELSE IF t = "hi" THEN PayString ELSE "\"aGk=\""
Unquote(v) == IF v = PayString64 THEN Pay64
              ELSE IF v = PayString THEN "hi" ELSE "aGk="
IsBase64(t) == \E b \in DOMAIN Base64 : Base64[b] = t
Base64Decode(t) == CHOOSE b \in DOMAIN Base64 : Base64[b] = t

\* The electrons handed to the codec.
WireElectrons ==
    [SenderID : {"", "empty"}, ID : {"", "empty"}, AtomID : {"", "empty"},
     Payload : Payloads]

\* Electron.MarshalJSON: senderid, id, atomid, and the payload, if any,
\* verbatim when it is valid JSON and as a base64 string otherwise.
encode(e) ==
    [senderid |-> e.SenderID, id |-> e.ID, atomid |-> e.AtomID,
     payload |-> IF e.Payload = "nil" THEN "absent"
                 ELSE IF IsJSON(e.Payload) THEN e.Payload
                 ELSE Quote(Base64[e.Payload])]

\* A document that is not JSON.
BadDoc == [senderid |-> "", id |-> "", atomid |-> "", payload |-> "{\"empty\"}"]

\* Electron.UnmarshalJSON: an error and the zero Electron for a document
\* that is not JSON; else the three ids, and the payload: a string that is
\* base64 is decoded, any other JSON value is kept as its text.
decode(doc) ==
    IF doc = BadDoc
    THEN [err |-> TRUE,
          e |-> [SenderID |-> "", ID |-> "", AtomID |-> "", Payload |-> "nil"]]
    ELSE [err |-> FALSE,
          e |-> [SenderID |-> doc.senderid, ID |-> doc.id, AtomID |-> doc.atomid,
                 Payload |-> IF doc.payload = "absent" THEN "nil"
                             ELSE IF IsJSONString(doc.payload)
                                     /\ IsBase64(Unquote(doc.payload))
                                  THEN Base64Decode(Unquote(doc.payload))
                                  ELSE doc.payload]]

\* Documents that come from elsewhere: the tests' three and the bad one.
ForeignDocs ==
    {[senderid |-> "empty", id |-> "empty", atomid |-> "empty", payload |-> v] :
        v \in {"absent", PayObject, PayString64}} \cup {BadDoc}

\* json.Marshal(e)
Marshal ==
    /\ wire.stage = "electron"
    /\ wire' = [wire EXCEPT !.stage = "document", !.doc = encode(wire.e)]
    /\ UNCHANGED <<cancelled, events, registry, atoms, atomsMu, now, regVars,
                   condVars, distVars, splitVars, heapVars, logVars, last>>

\* json.Unmarshal(doc, &e)
Unmarshal ==
    /\ wire.stage = "document"
    /\ wire' = [wire EXCEPT !.stage = "decoded", !.out = decode(wire.doc).e,
                            !.err = decode(wire.doc).err]
    /\ UNCHANGED <<cancelled, events, registry, atoms, atomsMu, now, regVars,
                   condVars, distVars, splitVars, heapVars, logVars, last>>

WireStart(stage, e, doc) ==
    [stage |-> stage, e |-> e, doc |-> doc, out |-> e, err |-> FALSE]

InitWire ==
    \E w \in {WireStart("electron", e, BadDoc) : e \in WireElectrons}
             \cup {WireStart("document", decode(d).e, d) : d \in ForeignDocs} :
        InitState("nil", 0, "idle", NoRegistry, w)

NextWire == Marshal \/ Unmarshal

SpecWire == InitWire /\ [][NextWire]_vars

\* ------------------------------------------------------------------ claims
\* The conductor.Complete call of the step just taken is exec's or
\* execute's report of an execution (not conduct's report of an invalid
\* electron).
ExecutionReport == last # NoCall /\ last.props.Error # "invalid electron"

InvalidReport == last # NoCall /\ last.props.Error = "invalid electron"

\* C1: for every valid electron that was forwarded to intake and whose
\* AtomID was found in the routing table, conductor.Complete has been called
\* exactly once by the time exec has returned for it (and not before more
\* than once), whether the atom succeeded or failed, and the report carries
\* the electron's ElectronID and AtomID with End >= Start.
C1_CompleteOnceByReturn ==
    /\ \A t \in Tags : fate[t] = "returned" => ncomp[t] = 1
    /\ \A t \in Tags : fate[t] \in {"forwarded", "handed"} => ncomp[t] = 0
    /\ ExecutionReport =>
          /\ last.props.ElectronID = last.electron.ID
          /\ last.props.AtomID = last.electron.AtomID
          /\ last.props.End >= last.props.Start

\* C2: while the dispatcher is not cancelled and process calls return, every
\* instance the distribution loop routed (its AtomID was in the table at
\* the lookup) is eventually followed by a conductor.Complete call for its
\* electron, also when the execution ends in an error.
C2_RoutedIsCompleted ==
    \A t \in Tags : (fate[t] = "forwarded") ~> (ncomp[t] >= 1)

\* C3: for every invalid electron pulled from a receive stream the conductor
\* adapter calls conductor.Complete exactly once, with an Error, a nil Result
\* and Start = End, never forwards the electron to intake, and goes on to
\* receive the next electron.
C3_InvalidReportedOnce ==
    /\ \A t \in Tags : fate[t] = "invalid" =>
          /\ ncomp[t] = 1
          /\ \A i \in DOMAIN intake : intake[i] # t
          /\ cpc[t[1]] \in {"recv", "send"} \cup CondSites
    /\ InvalidReport =>
          /\ last.props.Result = "nil"
          /\ last.props.Start = last.props.End

\* C4: an instance taken from intake whose AtomID has no channel in the
\* routing table at the lookup is reported "not registered" and dropped:
\* no conductor.Complete call for it, no atom adapter receives it, and the
\* distribution loop is back at its receive once the event call returns.
C4_UnregisteredDropped ==
    /\ [](\A t \in Tags : fate[t] = "dropped" =>
             /\ ncomp[t] = 0
             /\ execs[t] = NoExec
             /\ \A i \in DOMAIN handed : handed[i].tag # t)
    /\ [][\A t \in Tags : fate[t] # "dropped" /\ fate'[t] = "dropped" =>
             /\ dpc' = IF events = "nil" THEN "recv" ELSE "evNotReg"
             /\ dinst' = NoInst
             /\ dchan' = NoAdapter]_vars
    /\ [][dpc = "evNotReg" => dpc' \in {"evNotReg", "recv"}]_vars

\* An instance was dropped with its event received by the consumer, and a
\* later one of the same conductor was served.
C4_DroppedThenServed ==
    \E t1, t2 \in Tags :
        /\ events = "attached"
        /\ t1[1] = t2[1] /\ t1[2] < t2[2]
        /\ fate[t1] = "dropped"
        /\ fate[t2] \in {"handed", "returned"}

\* C5: every execution runs on a newly allocated atom value (process finds
\* it zeroed), distinct from every registered prototype and from the atom of
\* every other execution, and no prototype is ever written.
C5_FreshAtomPerExecution ==
    /\ \A t \in Tags : execs[t] # NoExec =>
          /\ execs[t].atom \notin {ProtoAddr(k) : k \in Kinds}
          /\ execs[t].seen = "zero"
    /\ \A t1, t2 \in Tags :
          t1 # t2 /\ execs[t1] # NoExec /\ execs[t2] # NoExec =>
             execs[t1].atom # execs[t2].atom
    /\ \A k \in Kinds : heap[ProtoAddr(k)] = "proto"

\* Two executions of one kind, the second started after the first wrote its
\* atom's field.
C5_SecondAfterMutation ==
    \E i, j \in DOMAIN handed :
        /\ i < j
        /\ akind[handed[i].adapter] = akind[handed[j].adapter]
        /\ execs[handed[i].tag] # NoExec /\ execs[handed[j].tag] # NoExec
        /\ heap[execs[handed[i].tag].atom] = "dirty"
        /\ execs[handed[j].tag].seen = "zero"

\* Every long-lived loop has returned.
AllDone ==
    /\ rpc = "done"
    /\ dpc = "done"
    /\ \A c \in Conductors : cpc[c] \in {"none", "done"}
    /\ \A a \in Adapters : apc[a] \in {"none", "done"}

\* C6: once the dispatcher's context is cancelled, the registration loop,
\* every conductor adapter, the distribution loop and every atom adapter
\* eventually return, whatever they were blocked in.
C6_AllLoopsExit == cancelled ~> AllDone

\* All loops have returned with a consumer of events that never received;
\* one electron was left in conduct (at its event or its send on intake),
\* one in distribute (at its event or its send on the atom channel).
C6_ExitedWhileBlocked ==
    /\ cancelled /\ AllDone
    /\ events = "stalled"
    /\ \E t1, t2 \in Tags : fate[t1] = "forwarded" /\ fate[t2] = "received"

\* C7: every conductor.Complete call for an electron, conduct's failure
\* report as well as the report of an execution, is made on the conductor
\* whose receive stream delivered the electron.
C7_CompleteOnOriginator ==
    last # NoCall => last.conductor = last.tag[1]

\* With both conductors registered and an electron of the first reported,
\* an execution of the second's electron is reported.
C7_SecondConductorReported ==
    /\ ExecutionReport
    /\ last.conductor = "c2"
    /\ cpc["c1"] # "none"
    /\ \E t \in Tags : t[1] = "c1" /\ ncomp[t] >= 1

\* The position of an electron in the sequence of instances taken from
\* intake.
IntakePos(t) == CHOOSE i \in DOMAIN intake : intake[i] = t

\* C8: one conductor's electrons enter intake in the order its stream
\* delivered them, and the instances of one atom kind are received by atom
\* adapters in the order they were taken from intake; so two electrons of
\* one conductor for one kind are never handed over in reverse.
C8_OrderPreserved ==
    /\ \A i, j \in DOMAIN intake :
          i < j /\ intake[i][1] = intake[j][1] => intake[i][2] < intake[j][2]
    /\ \A i, j \in DOMAIN handed :
          i < j /\ akind[handed[i].adapter] = akind[handed[j].adapter] =>
             IntakePos(handed[i].tag) < IntakePos(handed[j].tag)
    /\ \A i, j \in DOMAIN handed :
          /\ i < j
          /\ handed[i].tag[1] = handed[j].tag[1]
          /\ akind[handed[i].adapter] = akind[handed[j].adapter]
          => handed[i].tag[2] < handed[j].tag[2]

\* Two electrons of one conductor for one kind were both handed over.
C8_TwoOfOneKindHanded ==
    \E i, j \in DOMAIN handed :
        /\ i < j
        /\ handed[i].tag[1] = handed[j].tag[1]
        /\ akind[handed[i].adapter] = akind[handed[j].adapter]

\* No goroutine is inside an a.event call.
NoOneEmitting ==
    /\ rpc \notin RegSites
    /\ dpc \notin DistSites
    /\ \A c \in Conductors : cpc[c] \notin CondSites
    /\ \A a \in Adapters : apc[a] \notin SplitSites

\* C9: with no events channel attached no goroutine ever waits in a.event,
\* and once the context is cancelled every goroutine that is waiting in
\* a.event leaves it, consumer or not.
C9_EmissionReturns ==
    /\ [](events = "nil" => NoOneEmitting)
    /\ (cancelled /\ rpc \in RegSites) ~> (rpc \notin RegSites)
    /\ (cancelled /\ dpc \in DistSites) ~> (dpc \notin DistSites)
    /\ \A c \in Conductors :
          (cancelled /\ cpc[c] \in CondSites) ~> (cpc[c] \notin CondSites)
    /\ \A a \in Adapters :
          (cancelled /\ apc[a] \in SplitSites) ~> (apc[a] \notin SplitSites)

\* With a consumer that never receives, the registration loop got through
\* the events of registering an atom and returned.
C9_ReturnedWithoutConsumer ==
    /\ events = "stalled"
    /\ cancelled
    /\ nadapters = 1
    /\ rpc = "done"

\* The three identifying fields of an electron are all non-empty.
AllThree(e) == e.SenderID # "" /\ e.ID # EmptyID /\ e.AtomID # ""

\* C10: an electron is valid iff SenderID, ID and AtomID are all non-empty,
\* whatever its payload: conduct offers on intake only electrons with all
\* three, reports as invalid only electrons that lack one, and every
\* execution reported is of an electron with all three.
C10_ValidIffAllThree ==
    /\ \A e \in ElectronsAt("c1", 1) : Validate(e) <=> AllThree(e)
    /\ \A c \in Conductors : \A inst \in sending[c] : AllThree(inst.electron)
    /\ InvalidReport => ~AllThree(last.electron)
    /\ ExecutionReport => AllThree(last.electron)

\* An electron with a payload and only its AtomID empty was reported
\* invalid.
C10_OnlyAtomIDEmpty ==
    /\ InvalidReport
    /\ last.electron.SenderID # "" /\ last.electron.ID # EmptyID
    /\ last.electron.AtomID = ""
    /\ last.electron.Payload = "json"

\* C11: decoding the encoding of an Electron gives an equal Electron,
\* whatever its payload bytes (absent, a JSON object, a JSON string, bytes
\* that are not JSON); and a payload given as a base64 string decodes to the
\* same bytes as the one given as the embedded JSON value.
C11_WireRoundTrip ==
    /\ wire.stage = "decoded" /\ wire.doc = encode(wire.e) =>
          ~wire.err /\ wire.out = wire.e
    /\ \A d1, d2 \in ForeignDocs :
          d1.payload = PayObject /\ d2.payload = PayString64 =>
             decode(d1).e.Payload = decode(d2).e.Payload

\* The adapter that received the electron of stream position t.
AdapterOf(t) == handed[CHOOSE i \in DOMAIN handed : handed[i].tag = t].adapter

C13_RegistryRegistered ==
    rpc # "init" =>
       \A i \in DOMAIN registry.all :
          LET r == registry.all[i] IN
          /\ r.type = "Atom" /\ r.valid =>
                /\ atoms[r.id] # NoAdapter
                /\ akind[atoms[r.id]] = r.id
                /\ apc[atoms[r.id]] = "recv"
          /\ r.type = "Conductor" /\ r.valid => cpc[r.id] = "recv"

\* init() has returned from a registry with a valid atom and a valid
\* conductor.
C13_BootedWithAtomAndConductor ==
    /\ rpc = "idle"
    /\ \E i, j \in DOMAIN registry.all :
          /\ registry.all[i].type = "Atom" /\ registry.all[i].valid
          /\ registry.all[j].type = "Conductor" /\ registry.all[j].valid

\* How many goroutines hold a.eventsMu for reading: event takes the read
\* lock on entry and releases it on return, so it is held wherever a
\* goroutine waits in event's select.
eventsMuReaders ==
    (IF rpc \in RegSites THEN 1 ELSE 0)
    + (IF dpc \in DistSites THEN 1 ELSE 0)
    + Cardinality({c \in Conductors : cpc[c] \in CondSites})
    + Cardinality({a \in Adapters : apc[a] \in SplitSites})

\* C14: no goroutine holds a lock while it sends on a channel: a.atomsMu is
\* not write-held while its holder waits in a send, a.eventsMu is not held
\* by a goroutine waiting in the send on a.events, and the distribution loop
\* never waits for a.atomsMu behind a holder that is blocked in a send.
C14_NoLockAcrossSend ==
    /\ atomsMu = "W" => rpc \notin RegSites
    /\ ~(dpc = "lookup" /\ atomsMu = "W" /\ rpc \in RegSites)
    /\ eventsMuReaders = 0

\* C15: progress does not depend on anyone consuming events: while the
\* dispatcher is not cancelled, every valid electron a conductor adapter has
\* received gets through the pipeline (it is dropped as unregistered, or
\* exec returns for it), and the registration loop gets back to its select,
\* also when the consumer of an attached events channel never receives.
C15_EventsAdvisory ==
    /\ \A t \in Tags : (fate[t] = "received") ~> (fate[t] \in {"dropped", "returned"})
    /\ (rpc \in RegSites) ~> (rpc = "idle")

\* C16: a registration item that fails validation, or that is neither a
\* Conductor nor an Atom, produces an event and is skipped: from the moment
\* it is taken off the channel until the loop selects again, no conductor
\* adapter and no atom adapter is started and the routing table is not
\* touched, and the loop does get back to its select.
Skipped(item) == item # NoItem /\ (~item.valid \/ item.type = "Other")

C16_InvalidRegistrationSkipped ==
    /\ [][Skipped(ritem) \/ Skipped(ritem') =>
             /\ atoms' = atoms /\ nadapters' = nadapters
             /\ apc' = apc /\ akind' = akind /\ cpc' = cpc]_vars
    /\ [][rpc = "idle" /\ Skipped(ritem') => rpc' \in {"evInvalid", "evUnknown"}]_vars
    /\ Skipped(ritem) ~> (rpc = "idle")

\* An invalid atom of a kind that has no adapter yet was reported, the loop
\* is past register, and the kind is still not in the table.
C16_InvalidAtomReported ==
    /\ rpc = "evRegistered"
    /\ ritem.type = "Atom" /\ ~ritem.valid
    /\ atoms[ritem.id] = NoAdapter

\* C17: the routing table holds, for each atom kind, the channel of the
\* adapter started by the latest registration of that kind (and nothing for
\* a kind never registered); a lookup that finds a channel gets that one; a
\* registration that starts an adapter leaves the adapters that are already
\* running as they are, and an adapter exits only when the dispatcher is
\* cancelled.
Started(k) == {a \in Adapters : apc[a] # "none" /\ akind[a] = k}

Newest(k) == CHOOSE a \in Started(k) : \A b \in Started(k) : b <= a

C17_ReRegistrationReplaces ==
    /\ [](\A k \in Kinds :
             atoms[k] = IF Started(k) = {} THEN NoAdapter ELSE Newest(k))
    /\ [][dchan = NoAdapter /\ dchan' # NoAdapter =>
             dchan' = Newest(dinst'.electron.AtomID)]_vars
    /\ [][\A a \in Adapters :
             /\ nadapters' > nadapters /\ apc[a] # "none" => apc'[a] = apc[a]
             /\ apc[a] # "done" /\ apc'[a] = "done" => cancelled]_vars

\* A kind was registered twice, a lookup after that returned the second
\* adapter's channel, and the first adapter is still running.
C17_LookupAfterReRegistration ==
    /\ nadapters = 2 /\ akind[1] = akind[2]
    /\ dchan = 2
    /\ apc[1] \in {"recv", "process"}

\* C18: one slow electron does not stall the adapter of its kind: whenever
\* the distribution loop is at its send on an adapter's channel, that
\* adapter is not inside the execution of an earlier electron, so it can
\* receive.
C18_SlowElectronDoesNotStall ==
    \A a \in Adapters : dpc = "send" /\ dchan = a => apc[a] # "process"

\* C19: at every moment the distribution loop stands at, or performs, its
\* send on an atom channel, the instance it sends carries an electron with
\* non-empty SenderID, ID and AtomID whose AtomID is a key of the routing
\* table; and a key of the table is never removed.
C19_RoutedInstanceRegistered ==
    /\ [](dpc = "send" =>
             /\ AllThree(dinst.electron)
             /\ dinst.electron.AtomID \in Kinds
             /\ atoms[dinst.electron.AtomID] # NoAdapter)
    /\ [][\A k \in Kinds : atoms[k] # NoAdapter => atoms'[k] # NoAdapter]_vars

\* The distribution loop is at its send with a channel it looked up before
\* a registration replaced the table's entry for the kind.
C19_SendAfterRegistration ==
    /\ dpc = "send"
    /\ dchan # NoAdapter
    /\ atoms[dinst.electron.AtomID] # dchan

\* C20: a re-registration that interleaves with routing never loses an
\* instance: the adapter whose channel the distribution loop holds for its
\* send is still running and is one for the electron's kind, every instance
\* the lookup found a channel for is received by an adapter (also when the
\* kind was re-registered between lookup and send), and no instance is
\* received twice, by the same or by two adapters.
C20_ReRegistrationLosesNothing ==
    /\ [](dpc = "send" =>
             /\ apc[dchan] \notin {"none", "done"}
             /\ akind[dchan] = dinst.electron.AtomID)
    /\ [](\A i, j \in DOMAIN handed : i # j => handed[i].tag # handed[j].tag)
    /\ \A t \in Tags : (fate[t] = "forwarded") ~> (fate[t] \in {"handed", "returned"})

\* An instance was received by the previous adapter of its kind after the
\* kind had been re-registered, and its execution has returned.
C20_ExecutedByPreviousAdapter ==
    \E i \in DOMAIN handed :
        /\ ~handed[i].current
        /\ fate[handed[i].tag] = "returned"
        /\ execs[handed[i].tag] # NoExec

====
